---- MODULE Spec2Model ----
(***************************************************************************)
(* Model of src/AngryBirds.cpp: the GameWorld object (one main Ball, the   *)
(* split balls, four Levels of Obstacles), the per-frame GameWorld::Update *)
(* handler with everything it calls, and the part of main()'s loop that    *)
(* drives it (PLAYING frames, the ESC key, the level buttons).             *)
(*                                                                         *)
(* Numbers.  The program computes in float.  Lengths and velocities are    *)
(* kept here as integers in units of 1/FP pixel; a product or quotient is  *)
(* rounded toward zero (TruncDiv).  Angles occur only as arguments of      *)
(* cosf/sinf: for the probe directions they are multiples of 45 degrees    *)
(* (Cos4/Sin4, scaled by TRIG), for the split they are +-30 degrees, and   *)
(* for a launch the cosine and sine of atan2(dy, dx) are dx/d and dy/d.    *)
(*                                                                         *)
(* Integrator.  Lines 754-765 of GameWorld::UpdateBall advance a ball by   *)
(* float arithmetic whose trajectories are unbounded in length.  The model *)
(* keeps the collision loop, Level::Update and the rest test of UpdateBall *)
(* as written and takes the integrator's result (the ball's position and   *)
(* velocity at the end of the tick) as an input of the frame, drawn from   *)
(* FlightSamples.                                                          *)
(***************************************************************************)
EXTENDS Integers, Sequences, FiniteSets, TLC

VARIABLES
    game,            \* the GameWorld object (fields as in the source) plus `log`;
                     \* visible[l] is the set of obstacles of level l whose
                     \* `visible` is true, state[l] is Level::state of level l
    completionTime,  \* the function-local static of GameWorld::Update, in ms
    appState,        \* main()'s `state`: "LEVEL_SELECT" or "PLAYING"
    leftDown,        \* the left mouse button is held (raylib's current button state)
    last,            \* history: what the last frame did (auto-advance) and saw mid-frame
    sinceCompleted   \* history: frame time (ms) consumed since the current level was completed

vars == <<game, completionTime, appState, leftDown, last, sinceCompleted>>

-----------------------------------------------------------------------------
(* Program constants *)

PROBE_QUANTITY == 10
VELOCITY_MULTIPLIER == 40
LAUNCH_MAX_DISTANCE == 100
SCREEN_HEIGHT == 720
X_START == 200
BALL_RADIUS == 40
START_ATTEMPTS == 3
POWERUP_COST == 50
LAST_LEVEL == 4
OBSTACLE_POINTS == 10
COMPLETION_DELAY_MS == 2000

\* yStart = GetScreenHeight() - 200 and groundY = GetScreenHeight() - 40
Y_START == SCREEN_HEIGHT - 200
GROUND_Y == SCREEN_HEIGHT - 40

-----------------------------------------------------------------------------
(* Fixed-point arithmetic *)

FP == 10 * 10          \* length units per pixel
TRIG == 100 * 100      \* scale of a cosine or sine

Abs(a) == IF a < 0 THEN -a ELSE a

\* a / b rounded toward zero, as a float-to-int conversion rounds
TruncDiv(a, b) ==
    IF (a >= 0) = (b > 0) THEN Abs(a) \div Abs(b) ELSE -(Abs(a) \div Abs(b))

RECURSIVE SqrtIter(_, _, _)
SqrtIter(n, lo, hi) ==
    IF lo >= hi THEN lo
    ELSE LET mid == (lo + hi + 1) \div 2
         IN  IF mid <= n \div mid THEN SqrtIter(n, mid, hi) ELSE SqrtIter(n, lo, mid - 1)

\* floor of the square root
Sqrt(n) == IF n <= 0 THEN 0 ELSE SqrtIter(n, 0, 46340)

\* toRadians, cosf, sinf at the probe angles: the cosine and sine of a multiple
\* of 45 degrees, scaled by TRIG
Cos4(deg) ==
    CASE deg = 0 -> TRIG
      [] deg = 45 -> 7071
      [] deg = 90 -> 0
      [] deg = 135 -> -7071
      [] deg = 180 -> -TRIG
      [] deg = 225 -> -7071
      [] deg = 270 -> 0
      [] deg = 315 -> 7071

Sin4(deg) ==
    CASE deg = 0 -> 0
      [] deg = 45 -> 7071
      [] deg = 90 -> TRIG
      [] deg = 135 -> 7071
      [] deg = 180 -> 0
      [] deg = 225 -> -7071
      [] deg = 270 -> -TRIG
      [] deg = 315 -> -7071

\* cos and sin of toRadians(30), scaled by TRIG
COS_30 == 8660
SIN_30 == 5000

-----------------------------------------------------------------------------
(* Obstacle layouts: Level1..Level4::Initialize(groundY), rectangles in pixels *)

Rect(x, y, w, h) == [x |-> x, y |-> y, width |-> w, height |-> h]

RECURSIVE Concat(_)
Concat(ss) == IF ss = <<>> THEN <<>> ELSE Head(ss) \o Concat(Tail(ss))

Level1Layer(size, layer) ==
    LET startX == 800 - ((size - 1) * 35) \div 2
    IN  [k \in 1..size |-> Rect(startX + (k - 1) * 35, GROUND_Y - 40 * layer, 30, 40)]

Level1Obstacles ==
    Level1Layer(9, 1) \o Level1Layer(7, 2) \o Level1Layer(5, 3) \o Level1Layer(3, 4)
    \o <<Rect(800 - 15, GROUND_Y - 40 * 5, 30, 40)>>

Block(col, row) == Rect(700 + col * 40, GROUND_Y - row * 40, 40, 40)

Level2Obstacles ==
    Concat([k \in 1..8 |-> <<Block(k - 1, 1), Block(k - 1, 2)>>])
    \o <<Block(0, 3), Block(0, 4), Block(0, 5)>>
    \o <<Block(7, 3), Block(7, 4), Block(7, 5)>>
    \o Concat([k \in 1..4 |-> LET i == IF k <= 2 THEN k ELSE k + 2
                               IN  <<Block(i, 3), Block(i, 4)>>])
    \o [k \in 1..8 |-> Block(k - 1, 5)]
    \o <<Block(0, 6), Block(0, 7), Block(7, 6), Block(7, 7), Block(2, 6), Block(5, 6)>>
    \o <<Block(0, 7), Block(2, 7), Block(5, 7), Block(7, 7)>>
    \o [k \in 1..4 |-> Rect(700 + 3 * 40, GROUND_Y - (5 + k) * 40, 80, 40)]
    \o <<Block(-1, 1), Block(-1, 2), Block(8, 1), Block(8, 2)>>
    \o <<Rect(700 + 140 - 20, GROUND_Y - 300, 40, 40)>>

\* Level3::CreateSquare(centerX, baseY, size, blockSize, ...)
CreateSquare(baseY, size) ==
    LET offset == (size * 40) \div 2
        left == 800 - offset
    IN  Concat([k \in 1..size |->
            LET i == k - 1
            IN  <<Rect(left + i * 40, baseY, 40, 40),
                  Rect(left + i * 40, baseY - (size - 1) * 40, 40, 40)>>
                \o (IF i > 0 /\ i < size - 1
                    THEN <<Rect(left, baseY - i * 40, 40, 40),
                           Rect(800 + offset - 40, baseY - i * 40, 40, 40)>>
                    ELSE <<>>)])

Level3Obstacles ==
    LET baseY == GROUND_Y - 40
    IN  CreateSquare(baseY, 11) \o CreateSquare(baseY - 40, 9)
        \o CreateSquare(baseY - 80, 7) \o CreateSquare(baseY - 120, 5)
        \o CreateSquare(baseY - 160, 3)
        \o <<Rect(800 - 20, baseY - 200 - 20, 40, 40)>>

Tower(leftX) ==
    Concat([h \in 1..10 |-> [w \in 1..3 |-> Rect(leftX + (w - 1) * 40, GROUND_Y - h * 40, 40, 40)]])

Level4Obstacles ==
    LET platformLength == (900 - (700 + 3 * 40)) \div 40
        centerX == 700 + 3 * 40 + (platformLength * 40) \div 2 - 20
    IN  Tower(700) \o Tower(900)
        \o [k \in 1..platformLength |-> Rect(700 + 3 * 40 + (k - 1) * 40, GROUND_Y - 10 * 40, 40, 40)]
        \o <<Rect(centerX, GROUND_Y - 11 * 40, 40, 40)>>

Levels == 1..LAST_LEVEL

\* Level::obstacles[..].rect of level1..level4
ObstacleRects == <<Level1Obstacles, Level2Obstacles, Level3Obstacles, Level4Obstacles>>

\* Level::targetScore of level1..level4
TargetScore == <<100, 150, 250, 250>>

-----------------------------------------------------------------------------
(* Ball *)

Vec(x, y) == [x |-> x, y |-> y]

\* Ball::collisionProbes: ten slots, eight of them given, the rest zero
collisionProbes == <<0, 45, 90, 135, 180, 225, 270, 315, 0, 0>>

\* radius * 0.7f
Shrink(radius) == TruncDiv(radius * 7, 10)

\* (variant of Ball::GetProbePosition that never halves the probe radius)
GetProbePositionOneRing(b, forX, probeIndex) ==
    LET p == IF forX THEN b.pos.x ELSE b.pos.y
        deg == collisionProbes[(probeIndex % PROBE_QUANTITY) + 1]
        t == IF forX THEN Cos4(deg) ELSE Sin4(deg)
        probeRadius == IF b.isSplit THEN Shrink(b.radius) ELSE b.radius
    IN  p + TruncDiv(probeRadius * t, TRIG)

\* Ball::GetProbePosition(forX, probeIndex)
GetProbePosition(b, forX, probeIndex) ==
    LET p == IF forX THEN b.pos.x ELSE b.pos.y
        deg == collisionProbes[(probeIndex % PROBE_QUANTITY) + 1]
        t == IF forX THEN Cos4(deg) ELSE Sin4(deg)
        probeRadius == IF b.isSplit THEN Shrink(b.radius) ELSE b.radius
        ring == IF (probeIndex \div PROBE_QUANTITY) > 0
                THEN TruncDiv(probeRadius, 2) ELSE probeRadius
    IN  p + TruncDiv(ring * t, TRIG)

\* raylib CheckCollisionPointRec(point, rec); point in 1/FP pixel, rec in pixels
CheckCollisionPointRec(point, rec) ==
    /\ point.x >= rec.x * FP
    /\ point.x < (rec.x + rec.width) * FP
    /\ point.y >= rec.y * FP
    /\ point.y < (rec.y + rec.height) * FP

\* raylib CheckCollisionPointCircle(point, center, radius)
CheckCollisionPointCircle(point, center, radius) ==
    (point.x - center.x) * (point.x - center.x)
        + (point.y - center.y) * (point.y - center.y) <= radius * radius

\* (variant of Ball::CollidesWith that tests the outer ring of probes only)
CollidesWithOuterRing(b, obs) ==
    IF ~obs.visible \/ ~b.isActive THEN FALSE
    ELSE \E i \in 0..(PROBE_QUANTITY - 1) :
            CheckCollisionPointRec(
                Vec(GetProbePosition(b, TRUE, i), GetProbePosition(b, FALSE, i)), obs.rect)

\* Ball::CollidesWith(obs), obs = [rect, visible]
CollidesWith(b, obs) ==
    IF ~obs.visible \/ ~b.isActive THEN FALSE
    ELSE \E i \in 0..(PROBE_QUANTITY * 2 - 1) :
            CheckCollisionPointRec(
                Vec(GetProbePosition(b, TRUE, i), GetProbePosition(b, FALSE, i)), obs.rect)

\* (variant of Ball::CreateSplitBall that keeps the parent's radius)
CreateSplitBallFullSize(b, angleOffset) ==
    LET c == COS_30
        s == IF angleOffset < 0 THEN -SIN_30 ELSE SIN_30
    IN  [b EXCEPT !.isSplit = TRUE,
                  !.vel = Vec(TruncDiv(b.vel.x * c - b.vel.y * s, TRIG),
                              TruncDiv(b.vel.x * s + b.vel.y * c, TRIG))]

\* Ball::CreateSplitBall(angleOffset), angleOffset = -30 or +30 degrees.  With
\* a = atan2f(vel.y, vel.x) and speed = sqrtf(vel.x^2 + vel.y^2),
\*   cosf(a + t) * speed = vel.x cos t - vel.y sin t
\*   sinf(a + t) * speed = vel.x sin t + vel.y cos t
CreateSplitBall(b, angleOffset) ==
    LET c == COS_30
        s == IF angleOffset < 0 THEN -SIN_30 ELSE SIN_30
    IN  [b EXCEPT !.isSplit = TRUE,
                  !.radius = Shrink(b.radius),
                  !.vel = Vec(TruncDiv(b.vel.x * c - b.vel.y * s, TRIG),
                              TruncDiv(b.vel.x * s + b.vel.y * c, TRIG))]

-----------------------------------------------------------------------------
(* Level *)

PLAYING == "PLAYING"
COMPLETED == "COMPLETED"
FAILED == "FAILED"

NumObstacles(l) == Len(ObstacleRects[l])

EmptyLog == [resets |-> {}, checked |-> FALSE, destroyed |-> 0, failedSet |-> FALSE]

\* (variant of Level::Reset that also refills the attempts)
LevelResetWithAttempts(g, l) ==
    [g EXCEPT !.visible[l] = 1..NumObstacles(l),
              !.state[l] = PLAYING,
              !.attempts = START_ATTEMPTS,
              !.log.resets = @ \cup {l}]

\* Level::Reset() of level l
LevelReset(g, l) ==
    [g EXCEPT !.visible[l] = 1..NumObstacles(l),
              !.state[l] = PLAYING,
              !.log.resets = @ \cup {l}]

\* (variant of Level::GetCurrentScore with a bonus point per obstacle)
GetCurrentScoreWithBonus(g, l) ==
    (OBSTACLE_POINTS + 1) * Cardinality((1..NumObstacles(l)) \ g.visible[l])

\* Level::GetCurrentScore() of level l
GetCurrentScore(g, l) ==
    OBSTACLE_POINTS * Cardinality((1..NumObstacles(l)) \ g.visible[l])

\* (variant of Level::Update that needs more than the target score)
LevelUpdateStrict(g, l) ==
    LET g1 == [g EXCEPT !.log.checked = TRUE]
    IN  IF GetCurrentScore(g, l) > TargetScore[l]
        THEN [g1 EXCEPT !.state[l] = COMPLETED]
        ELSE g1

\* Level::Update() of level l
LevelUpdate(g, l) ==
    LET g1 == [g EXCEPT !.log.checked = TRUE]
    IN  IF GetCurrentScore(g, l) >= TargetScore[l]
        THEN [g1 EXCEPT !.state[l] = COMPLETED]
        ELSE g1

-----------------------------------------------------------------------------
(* GameWorld *)

Anchor == Vec(X_START * FP, Y_START * FP)

\* the main ball as GameWorld::Init and GameWorld::ResetBalls leave it
FreshBall ==
    [pos |-> Anchor, vel |-> Vec(50 * FP, -50 * FP), radius |-> BALL_RADIUS * FP,
     isSplit |-> FALSE, isActive |-> TRUE]

\* (variant of GameWorld::ResetBalls that also puts the obstacles back)
ResetBallsAndObstacles(g) ==
    [g EXCEPT !.ball = FreshBall,
              !.launched = FALSE,
              !.selectedBall = FALSE,
              !.splitBalls = <<>>,
              !.visible[g.currentLevel] = 1..NumObstacles(g.currentLevel)]

\* GameWorld::ResetBalls()
ResetBalls(g) ==
    [g EXCEPT !.ball = FreshBall,
              !.launched = FALSE,
              !.selectedBall = FALSE,
              !.splitBalls = <<>>]

\* GameWorld::Reset()
Reset(g) ==
    LET g1 == ResetBalls(g)
    IN  [g1 EXCEPT !.splitBalls = <<>>, !.powerupActive = FALSE]

\* (variant of GameWorld::SetLevel that puts the level it leaves back to Playing)
SetLevelClearingOld(g, levelNum) ==
    LET g1 == Reset(g)
        target == IF levelNum \in Levels THEN levelNum ELSE 1
        g2 == [g1 EXCEPT !.currentLevel = target,
                         !.currentLevelIndex = levelNum,
                         !.attempts = START_ATTEMPTS,
                         !.state[g.currentLevel] = PLAYING]
    IN  LevelReset(g2, target)

\* (variant of GameWorld::SetLevel that keeps the attempts counter)
SetLevelKeepingAttempts(g, levelNum) ==
    LET g1 == Reset(g)
        target == IF levelNum \in Levels THEN levelNum ELSE 1
        g2 == [g1 EXCEPT !.currentLevel = target,
                         !.currentLevelIndex = levelNum]
    IN  LevelReset(g2, target)

\* GameWorld::SetLevel(levelNum)
SetLevel(g, levelNum) ==
    LET g1 == Reset(g)
        target == IF levelNum \in Levels THEN levelNum ELSE 1
        g2 == [g1 EXCEPT !.currentLevel = target,
                         !.currentLevelIndex = levelNum,
                         !.attempts = START_ATTEMPTS]
    IN  LevelReset(g2, target)

\* (variant of GameWorld::ActivateSplitPowerup that does not look for an
\* earlier split)
ActivateSplitPowerupUnguarded(g) ==
    IF ~g.canUsePowerup \/ ~g.launched
    THEN g
    ELSE [g EXCEPT !.totalScore = @ - POWERUP_COST,
                   !.powerupActive = TRUE,
                   !.splitBalls = @ \o <<CreateSplitBall(g.ball, -30), CreateSplitBall(g.ball, 30)>>,
                   !.ball.isSplit = TRUE,
                   !.ball.radius = Shrink(g.ball.radius)]

\* GameWorld::ActivateSplitPowerup()
ActivateSplitPowerup(g) ==
    IF ~g.canUsePowerup \/ ~g.launched \/ g.ball.isSplit \/ Len(g.splitBalls) > 0
    THEN g
    ELSE [g EXCEPT !.totalScore = @ - POWERUP_COST,
                   !.powerupActive = TRUE,
                   !.splitBalls = <<CreateSplitBall(g.ball, -30), CreateSplitBall(g.ball, 30)>>,
                   !.ball.isSplit = TRUE,
                   !.ball.radius = Shrink(g.ball.radius)]

\* the ball UpdateBall works on: 0 is GameWorld::ball, k > 0 is splitBalls[k-1]
BallAt(g, which) == IF which = 0 THEN g.ball ELSE g.splitBalls[which]

SetBall(g, which, b) ==
    IF which = 0 THEN [g EXCEPT !.ball = b] ELSE [g EXCEPT !.splitBalls[which] = b]

\* (variant of the launch controller without the clamp of lines 658-661)
LaunchFromUnclamped(px, py) ==
    LET dx == X_START - px
        dy == Y_START - py
        d == Sqrt((dx * dx + dy * dy) * FP * FP)
        cosA == IF d = 0 THEN TRIG ELSE TruncDiv(dx * FP * TRIG, d)
        sinA == IF d = 0 THEN 0 ELSE TruncDiv(dy * FP * TRIG, d)
        pos == Vec(px * FP, py * FP)
        vx == TruncDiv(Abs(pos.x - X_START * FP) * TRIG, LAUNCH_MAX_DISTANCE * FP)
        vy == -TruncDiv(Abs(pos.y - Y_START * FP) * TRIG, LAUNCH_MAX_DISTANCE * FP)
    IN  [pos |-> pos,
         vel |-> Vec(TruncDiv(TruncDiv(vx * cosA, TRIG) * VELOCITY_MULTIPLIER * FP, TRIG),
                     TruncDiv(TruncDiv(vy * (-sinA), TRIG) * VELOCITY_MULTIPLIER * FP, TRIG))]

\* (variant of the launch controller without the minus sign of line 664)
LaunchFromSignDropped(px, py) ==
    LET dx == X_START - px
        dy == Y_START - py
        launchDistance == Sqrt(dx * dx + dy * dy)
        d == Sqrt((dx * dx + dy * dy) * FP * FP)
        cosA == IF d = 0 THEN TRIG ELSE TruncDiv(dx * FP * TRIG, d)
        sinA == IF d = 0 THEN 0 ELSE TruncDiv(dy * FP * TRIG, d)
        pos == IF launchDistance > LAUNCH_MAX_DISTANCE
               THEN Vec(X_START * FP + TruncDiv((-cosA) * LAUNCH_MAX_DISTANCE * FP, TRIG),
                        Y_START * FP + TruncDiv((-sinA) * LAUNCH_MAX_DISTANCE * FP, TRIG))
               ELSE Vec(px * FP, py * FP)
        vx == TruncDiv(Abs(pos.x - X_START * FP) * TRIG, LAUNCH_MAX_DISTANCE * FP)
        vy == TruncDiv(Abs(pos.y - Y_START * FP) * TRIG, LAUNCH_MAX_DISTANCE * FP)
    IN  [pos |-> pos,
         vel |-> Vec(TruncDiv(TruncDiv(vx * cosA, TRIG) * VELOCITY_MULTIPLIER * FP, TRIG),
                     TruncDiv(TruncDiv(vy * (-sinA), TRIG) * VELOCITY_MULTIPLIER * FP, TRIG))]

\* The launch controller (lines 651-667) for the ball put at pixel (px, py):
\* the clamped position and the launch velocity.  With a = atan2(dy, dx):
\* relativeAngle = a + PI and launchAngle = PI - relativeAngle = -a, so
\* cos(relativeAngle) = -dx/d, sin(relativeAngle) = -dy/d,
\* cos(launchAngle) = dx/d and sin(launchAngle) = -dy/d; atan2(0, 0) = 0.
LaunchFrom(px, py) ==
    LET dx == X_START - px
        dy == Y_START - py
        launchDistance == Sqrt(dx * dx + dy * dy)
        d == Sqrt((dx * dx + dy * dy) * FP * FP)
        cosA == IF d = 0 THEN TRIG ELSE TruncDiv(dx * FP * TRIG, d)
        sinA == IF d = 0 THEN 0 ELSE TruncDiv(dy * FP * TRIG, d)
        pos == IF launchDistance > LAUNCH_MAX_DISTANCE
               THEN Vec(X_START * FP + TruncDiv((-cosA) * LAUNCH_MAX_DISTANCE * FP, TRIG),
                        Y_START * FP + TruncDiv((-sinA) * LAUNCH_MAX_DISTANCE * FP, TRIG))
               ELSE Vec(px * FP, py * FP)
        vx == TruncDiv(Abs(pos.x - X_START * FP) * TRIG, LAUNCH_MAX_DISTANCE * FP)
        vy == -TruncDiv(Abs(pos.y - Y_START * FP) * TRIG, LAUNCH_MAX_DISTANCE * FP)
    IN  [pos |-> pos,
         vel |-> Vec(TruncDiv(TruncDiv(vx * cosA, TRIG) * VELOCITY_MULTIPLIER * FP, TRIG),
                     TruncDiv(TruncDiv(vy * (-sinA), TRIG) * VELOCITY_MULTIPLIER * FP, TRIG))]

\* pointer positions GetMousePosition() returns, in pixels: a point on the
\* resting ball, a pull down and left inside the launch circle, and a pull
\* straight left beyond it
GrabPoint == Vec(X_START + 15, Y_START + 10)
PullPoint == Vec(X_START - 65, Y_START + 70)
FarPoint == Vec(X_START - 135, Y_START + 10)
\* a pull that puts the ball 100 px left and 10 px below the anchor (100.5 px
\* away), and a pull up and left that puts it above the anchor
EdgePoint == Vec(X_START - 85, Y_START + 20)
HighPoint == Vec(X_START - 65, Y_START - 50)
PointerPoints == {GrabPoint, PullPoint, FarPoint, EdgePoint, HighPoint}

\* results of the integrator (lines 754-765): two places inside the
\* structures, and one nearly at rest on the ground line
FlightSamples ==
    <<[pos |-> Vec(824 * FP, 592 * FP), vel |-> Vec(2250, 900)],
      [pos |-> Vec(832 * FP, 612 * FP), vel |-> Vec(1200, -650)],
      [pos |-> Vec(1100 * FP, (SCREEN_HEIGHT - 28) * FP), vel |-> Vec(5, -8)]>>

\* the places and sizes of a ball when UpdateBall looks for collisions: where
\* the integrator or a launch has put it, before or after a split
BallShapes ==
    LET places == {FlightSamples[k].pos : k \in DOMAIN FlightSamples}
                  \cup {LaunchFrom(X_START + p.x - q.x, Y_START + p.y - q.y).pos :
                            p \in PointerPoints, q \in PointerPoints}
    IN  {[pos |-> place, radius |-> r[1], isSplit |-> r[2]] :
            place \in places,
            r \in {<<BALL_RADIUS * FP, FALSE>>, <<Shrink(BALL_RADIUS * FP), TRUE>>}}

\* the obstacles of level l that the collision loop of UpdateBall (lines
\* 741-752) finds for ball b when all of them are visible
Touches(b, l) ==
    {i \in 1..NumObstacles(l) :
        CollidesWith([b EXCEPT !.isActive = TRUE],
                     [rect |-> ObstacleRects[l][i], visible |-> TRUE])}

\* Touches, tabulated
TouchTable ==
    [l \in Levels |->
        [shape \in BallShapes |->
            Touches([pos |-> shape.pos, radius |-> shape.radius,
                     isSplit |-> shape.isSplit, isActive |-> TRUE], l)]]

\* the rest test that ends GameWorld::UpdateBall
HasStopped(b) ==
    /\ Abs(b.vel.x) * 10 < FP
    /\ Abs(b.vel.y) * 10 < FP
    /\ b.pos.y > SCREEN_HEIGHT * FP - b.radius - FP

\* the rectangle around the obstacles of each level, in 1/FP pixel
LevelBoxes ==
    [l \in Levels |->
        LET rects == {ObstacleRects[l][i] : i \in 1..NumObstacles(l)}
        IN  [left |-> FP * (CHOOSE x \in {r.x : r \in rects} :
                                \A r \in rects : x <= r.x),
             right |-> FP * (CHOOSE x \in {r.x + r.width : r \in rects} :
                                \A r \in rects : x >= r.x + r.width),
             top |-> FP * (CHOOSE y \in {r.y : r \in rects} :
                                \A r \in rects : y <= r.y),
             bottom |-> FP * (CHOOSE y \in {r.y + r.height : r \in rects} :
                                \A r \in rects : y >= r.y + r.height)]]

\* ball b is so far from the obstacles of level l that none of its probes,
\* which lie within b.radius of its center, is inside any of them
OutOfReach(b, l) ==
    \/ b.pos.x + b.radius < LevelBoxes[l].left
    \/ b.pos.x - b.radius >= LevelBoxes[l].right
    \/ b.pos.y + b.radius < LevelBoxes[l].top
    \/ b.pos.y - b.radius >= LevelBoxes[l].bottom

\* the obstacles of level l under ball b (lines 741-742, all visible)
Touched(b, l) ==
    IF [pos |-> b.pos, radius |-> b.radius, isSplit |-> b.isSplit] \in BallShapes
    THEN TouchTable[l][[pos |-> b.pos, radius |-> b.radius, isSplit |-> b.isSplit]]
    ELSE IF OutOfReach(b, l) THEN {}
    ELSE Touches(b, l)

\* the visible obstacles of the current level that ball b collides with
HitBy(g, b) ==
    IF b.isActive THEN Touched(b, g.currentLevel) \cap g.visible[g.currentLevel] ELSE {}

\* lines 743-751 for the obstacles `hit`: obs.visible = false, and
\* currentLevel->Update() if there was a collision
Destroy(g, hit) ==
    IF hit # {}
    THEN LevelUpdate([g EXCEPT !.visible[g.currentLevel] = @ \ hit,
                               !.log.destroyed = @ + Cardinality(hit)],
                     g.currentLevel)
    ELSE g

\* lines 767-771: a slow ball on the ground line becomes inactive
Rest(b) == IF HasStopped(b) THEN [b EXCEPT !.isActive = FALSE] ELSE b

\* GameWorld::UpdateBall(currentBall); `moved` is the integrator's result
\* (position and velocity after lines 754-765)
UpdateBall(g, which, moved) ==
    SetBall(Destroy(g, HitBy(g, BallAt(g, which))), which,
            Rest([BallAt(g, which) EXCEPT !.pos = moved.pos, !.vel = moved.vel]))

\* The sum of the four levels' scores (line 624)
SumOfScores(g) ==
    GetCurrentScore(g, 1) + GetCurrentScore(g, 2) + GetCurrentScore(g, 3) + GetCurrentScore(g, 4)

\* lines 624-627: the total score and whether it pays for the power-up
WithTotal(g, total) ==
    [g EXCEPT !.totalScore = total, !.canUsePowerup = (total >= POWERUP_COST)]

\* lines 629-635: split on a click while the ball is in flight
SplitOnClick(g, in) ==
    IF /\ g.launched /\ g.canUsePowerup /\ ~g.powerupActive
       /\ ~g.ball.isSplit /\ g.ball.isActive /\ in.pressed
    THEN ActivateSplitPowerup(g)
    ELSE g

\* GameWorld::Update, lines 623-635: total score, affordability, split on click
ScoreAndPowerup(g, in) == SplitOnClick(WithTotal(g, SumOfScores(g)), in)

\* GameWorld::Update, lines 637-644: grab the ball (the conjuncts of line 639
\* are evaluated with ~launched first, which keeps the squares small)
Grab(g, in) ==
    LET m == Vec(in.mouse.x * FP, in.mouse.y * FP)
    IN  IF in.pressed /\ ~g.launched /\ CheckCollisionPointCircle(m, g.ball.pos, g.ball.radius)
        THEN [g EXCEPT !.selectedBall = TRUE,
                       !.xOffset = TruncDiv(m.x - g.ball.pos.x, FP),
                       !.yOffset = TruncDiv(m.y - g.ball.pos.y, FP)]
        ELSE g

\* lines 649-650 and 663-667: the ball takes the position and velocity r
PutBall(g, r) == [g EXCEPT !.ball.pos = r.pos, !.ball.vel = r.vel]

\* GameWorld::Update, lines 646-668: drag
Drag(g, in) ==
    IF in.down /\ g.selectedBall
    THEN PutBall(g, LaunchFrom(in.mouse.x - g.xOffset, in.mouse.y - g.yOffset))
    ELSE g

\* (variant of the release that does not compare the ball with the anchor)
ReleaseAlwaysLaunches(g, in) ==
    IF in.released
    THEN LET g1 == IF g.selectedBall
                   THEN [g EXCEPT !.launched = TRUE,
                                  !.attempts = @ - 1,
                                  !.powerupActive = FALSE]
                   ELSE g
         IN  [g1 EXCEPT !.selectedBall = FALSE]
    ELSE g

\* GameWorld::Update, lines 670-677: release
Release(g, in) ==
    IF in.released
    THEN LET g1 == IF g.selectedBall /\ g.ball.pos # Anchor
                   THEN [g EXCEPT !.launched = TRUE,
                                  !.attempts = @ - 1,
                                  !.powerupActive = FALSE]
                   ELSE g
         IN  [g1 EXCEPT !.selectedBall = FALSE]
    ELSE g

\* GameWorld::Update, lines 623-677
HandlePointer(g, in) == Release(Drag(Grab(ScoreAndPowerup(g, in), in), in), in)

IsActive(g, which) == which <= Len(g.splitBalls) /\ BallAt(g, which).isActive

\* GameWorld::Update, lines 680-690: advance the main ball, then the split balls in order
RECURSIVE AdvanceFrom(_, _, _)
AdvanceFrom(g, which, moved) ==
    IF which > Len(g.splitBalls) THEN g
    ELSE AdvanceFrom(IF IsActive(g, which) THEN UpdateBall(g, which, moved[which + 1]) ELSE g,
                     which + 1, moved)

AdvanceBalls(g, moved) == AdvanceFrom(g, 0, moved)

\* line 693-699
AllBallsStopped(g) ==
    ~g.ball.isActive /\ \A k \in 1..Len(g.splitBalls) : ~g.splitBalls[k].isActive

\* (variant of the end of a round that does not look at Completed)
EndRoundIgnoringCompleted(g) ==
    IF AllBallsStopped(g)
    THEN LET l == g.currentLevel
             g1 == IF g.attempts <= 0
                   THEN [g EXCEPT !.state[l] = FAILED, !.log.failedSet = TRUE]
                   ELSE g
         IN  ResetBalls(g1)
    ELSE g

\* (variant of the end of a round that leaves a lost round as it is)
EndRoundWithAttemptsLeft(g) ==
    IF AllBallsStopped(g)
    THEN IF g.attempts <= 0
         THEN IF g.state[g.currentLevel] # COMPLETED
              THEN [g EXCEPT !.state[g.currentLevel] = FAILED, !.log.failedSet = TRUE]
              ELSE g
         ELSE ResetBalls(g)
    ELSE g

\* GameWorld::Update, lines 701-712: the end of a round
EndRound(g) ==
    IF AllBallsStopped(g)
    THEN LET l == g.currentLevel
             g1 == IF g.attempts <= 0 /\ g.state[l] # COMPLETED
                   THEN [g EXCEPT !.state[l] = FAILED, !.log.failedSet = TRUE]
                   ELSE g
         IN  ResetBalls(g1)
    ELSE g

\* GameWorld::Update, lines 715-733: the reset input and the level keys
HandleKeys(g, key) ==
    LET g1 == IF key = "RESET"
              THEN [LevelReset(Reset(g), g.currentLevel) EXCEPT !.attempts = START_ATTEMPTS]
              ELSE g
    IN  CASE key = "ONE" -> SetLevel(g1, 1)
          [] key = "TWO" -> SetLevel(g1, 2)
          [] key = "THREE" -> SetLevel(g1, 3)
          [] key = "FOUR" -> SetLevel(g1, 4)
          [] OTHER -> g1

\* GameWorld::Update, lines 679-690: the balls are advanced once launched
AdvanceTick(g, moved) == IF g.launched THEN AdvanceBalls(g, moved) ELSE g

\* GameWorld::Update, lines 692-733: the end of the tick for the world `mid`
\* that AdvanceTick made of g
EndTick(g, mid, key) == HandleKeys(IF g.launched THEN EndRound(mid) ELSE mid, key)

\* GameWorld::Update, lines 608-621, for a completed level: [g, ct]
UpdateCompleted(g, ct, dt) ==
    IF g.currentLevelIndex < LAST_LEVEL
    THEN IF ct + dt > COMPLETION_DELAY_MS
         THEN [g |-> SetLevel(g, g.currentLevelIndex + 1), ct |-> 0]
         ELSE [g |-> g, ct |-> ct + dt]
    ELSE [g |-> g, ct |-> ct]

-----------------------------------------------------------------------------
(* Inputs of a frame *)

\* frame times GetFrameTime() returns, in ms
MinFrameMs == 1000
MaxFrameMs == 1500
FrameTimes == {MinFrameMs, MaxFrameMs}

\* launches the player makes beyond the attempts of a level
MaxOverdraw == 1

\* the levels the player selects, by button or by number key
LevelChoices == {1, 2}

\* the keys the player hits
Keys == {"RESET", "ONE", "TWO", "ESCAPE"}

\* ball positions a drag asks for (pointer minus grab offset), in pixels: a
\* grid over the square of side 400 around the anchor
DragGrid ==
    {Vec(X_START + 25 * i, Y_START + 25 * j) : i \in -8..8, j \in -8..8}

\* the inputs of a frame, given the left button's state in the frame before:
\* a pointer event (move, press, release) or a key; once the ball is launched
\* the handler does not look at the pointer's position
FrameInputs(g, wasDown) ==
    {[mouse |-> p, pressed |-> ~wasDown, down |-> TRUE, released |-> FALSE, key |-> "NONE"] :
        p \in (IF g.launched THEN {GrabPoint} ELSE PointerPoints)}
    \cup {[mouse |-> PullPoint, pressed |-> FALSE, down |-> FALSE, released |-> wasDown,
           key |-> "NONE"]}
    \cup {[mouse |-> PullPoint, pressed |-> FALSE, down |-> wasDown, released |-> FALSE,
           key |-> k] : k \in Keys}

\* the integrator's results of one tick for the main ball and the two split
\* balls, as indices into FlightSamples
FlightDraws == {<<1, 2, 3>>, <<2, 3, 1>>, <<3, 1, 2>>, <<3, 3, 3>>}

NoMove == [pos |-> Anchor, vel |-> Vec(0, 0)]

MovedChoices(g) ==
    IF g.launched
    THEN {[k \in 1..3 |-> FlightSamples[d[k]]] : d \in FlightDraws}
    ELSE {<<NoMove, NoMove, NoMove>>}

-----------------------------------------------------------------------------
(* main(): the frames *)

\* what lines 692-707 look at: the balls were advanced (launched), all of
\* them are inactive, no attempt is left, the level is not completed
RoundLost(g, advanced) ==
    /\ advanced
    /\ AllBallsStopped(g)
    /\ g.attempts <= 0
    /\ g.state[g.currentLevel] # COMPLETED

\* the GameWorld after GameWorld::Init()
InitialGame ==
    SetLevel([ball |-> FreshBall, splitBalls |-> <<>>,
              visible |-> [l \in Levels |-> 1..NumObstacles(l)],
              state |-> [l \in Levels |-> PLAYING],
              currentLevel |-> 1, currentLevelIndex |-> 1,
              selectedBall |-> FALSE, xOffset |-> 0, yOffset |-> 0,
              launched |-> FALSE, attempts |-> START_ATTEMPTS,
              totalScore |-> 0, canUsePowerup |-> FALSE, powerupActive |-> FALSE,
              log |-> EmptyLog], 1)

Init ==
    /\ game = InitialGame
    /\ completionTime = 0
    /\ appState = "LEVEL_SELECT"
    /\ leftDown = FALSE
    /\ last = [advance |-> FALSE, roundLost |-> FALSE]
    /\ sinceCompleted = 0

Cleared(g) == [g EXCEPT !.log = EmptyLog]

\* main(), case PLAYING, with the current level completed: Update returns early
CompletedFrame ==
    /\ appState = "PLAYING"
    /\ game.state[game.currentLevel] = COMPLETED
    /\ \E dt \in FrameTimes, down \in BOOLEAN, escape \in BOOLEAN :
          \E r \in {UpdateCompleted(Cleared(game), completionTime, dt)} :
              /\ game' = r.g
              /\ completionTime' = r.ct
              /\ sinceCompleted' = sinceCompleted + dt
              /\ leftDown' = down
              /\ appState' = IF escape THEN "LEVEL_SELECT" ELSE "PLAYING"
              /\ last' = [advance |-> r.g.currentLevelIndex # game.currentLevelIndex,
                          roundLost |-> FALSE]

\* main(), case PLAYING, with the current level not completed
PlayingFrame ==
    /\ appState = "PLAYING"
    /\ game.state[game.currentLevel] # COMPLETED
    /\ \E in \in FrameInputs(game, leftDown) :
          \E g1 \in {HandlePointer(Cleared(game), in)} :
              /\ g1.attempts >= -MaxOverdraw
              /\ \E moved \in MovedChoices(g1) :
                    \E mid \in {AdvanceTick(g1, moved)} :
                        /\ game' = EndTick(g1, mid, in.key)
                        /\ completionTime' = completionTime
                        /\ sinceCompleted' = 0
                        /\ leftDown' = in.down
                        /\ appState' = IF in.key = "ESCAPE" THEN "LEVEL_SELECT" ELSE "PLAYING"
                        /\ last' = [advance |-> FALSE,
                                    roundLost |-> RoundLost(mid, g1.launched)]

\* main(), case LEVEL_SELECT: a level button is clicked
LevelButton ==
    /\ appState = "LEVEL_SELECT"
    /\ \E n \in LevelChoices :
          /\ game' = SetLevel(Cleared(game), n)
          /\ appState' = "PLAYING"
          /\ leftDown' = FALSE
          /\ last' = [advance |-> FALSE, roundLost |-> FALSE]
          /\ sinceCompleted' = 0
          /\ UNCHANGED completionTime

Next == CompletedFrame \/ PlayingFrame \/ LevelButton

Spec == Init /\ [][Next]_vars

-----------------------------------------------------------------------------
(* The flight of the main projectile, with the integrator of UpdateBall *)
(* computed: lines 744 and 754-765 in fixed point, every product rounded   *)
(* toward zero.                                                            *)

GRAVITY == 1

\* v * elasticity (0.9f) and v * friction (0.99f)
Elastic(v) == TruncDiv(v * 9, 10)
Damp(v) == TruncDiv(v * 99, 100)

\* line 744: vel.x *= elasticity, once for each obstacle hit
RECURSIVE Bounced(_, _)
Bounced(b, hits) ==
    IF hits = 0 THEN b ELSE Bounced([b EXCEPT !.vel.x = Elastic(@)], hits - 1)

\* lines 754-757: a ball below the ground line is put on it and turned around
Grounded(b) ==
    IF b.pos.y + b.radius > SCREEN_HEIGHT * FP
    THEN [b EXCEPT !.pos.y = SCREEN_HEIGHT * FP - b.radius, !.vel.y = Elastic(-b.vel.y)]
    ELSE b

\* lines 759-765: move, gravity, friction
Step(b) ==
    [pos |-> Vec(b.pos.x + b.vel.x, b.pos.y + b.vel.y),
     vel |-> Vec(Damp(b.vel.x), Damp(b.vel.y + GRAVITY * FP))]

\* the position and velocity of ball b after lines 739-765 of UpdateBall
ExactMove(g, b) == Step(Grounded(Bounced(b, Cardinality(HitBy(g, b)))))

PressInput ==
    [mouse |-> GrabPoint, pressed |-> TRUE, down |-> TRUE, released |-> FALSE, key |-> "NONE"]

MoveInput(p) ==
    [mouse |-> p, pressed |-> FALSE, down |-> TRUE, released |-> FALSE, key |-> "NONE"]

ReleaseInput ==
    [mouse |-> PullPoint, pressed |-> FALSE, down |-> FALSE, released |-> TRUE, key |-> "NONE"]

IdleInput ==
    [mouse |-> PullPoint, pressed |-> FALSE, down |-> FALSE, released |-> FALSE, key |-> "NONE"]

\* the world after the ball of level l was grabbed, pulled to pointer
\* position p and released (lines 623-677 of three ticks)
Launched(l, p) ==
    HandlePointer(
        HandlePointer(
            HandlePointer(Cleared(SetLevel(InitialGame, l)), PressInput),
            MoveInput(p)),
        ReleaseInput)

\* the level of the flights
FlightLevel == 1

FlightStarts == {Launched(FlightLevel, p) : p \in PointerPoints \ {GrabPoint}}

FlightInit ==
    /\ game \in FlightStarts
    /\ completionTime = 0
    /\ appState = "PLAYING"
    /\ leftDown = FALSE
    /\ last = [advance |-> FALSE, roundLost |-> FALSE]
    /\ sinceCompleted = 0

\* main(), case PLAYING: an Update tick without input while the main ball is
\* in flight, lines 623-733
FlightTick ==
    /\ appState = "PLAYING"
    /\ game.launched
    /\ game.state[game.currentLevel] # COMPLETED
    /\ \E g1 \in {HandlePointer(Cleared(game), IdleInput)} :
          \E moved \in {ExactMove(g1, g1.ball)} :
              \E mid \in {AdvanceTick(g1, <<moved, NoMove, NoMove>>)} :
                  /\ game' = EndTick(g1, mid, "NONE")
                  /\ last' = [advance |-> FALSE, roundLost |-> RoundLost(mid, g1.launched)]
                  /\ UNCHANGED <<completionTime, appState, leftDown, sinceCompleted>>

FlightNext == FlightTick

\* the ticks keep coming: main() calls Update in every frame
FlightSpec == FlightInit /\ [][FlightNext]_vars /\ WF_vars(FlightNext)

-----------------------------------------------------------------------------
(* Properties *)

Hidden(l) == (1..NumObstacles(l)) \ game.visible[l]

\* C1: an obstacle that has become invisible never becomes visible again, so a
\* level's set of visible obstacles never grows, in any frame in which
\* Level::Reset() does not run on that level.
C1_VisibilityMonotone ==
    [][\A l \in Levels :
          l \in game'.log.resets \/ game'.visible[l] \subseteq game.visible[l]]_vars

\* C1's case: an Update tick with the ball in flight has passed over a level
\* with destroyed obstacles, and none of them came back
C1_Witness ==
    /\ game.launched
    /\ Hidden(game.currentLevel) # {}
    /\ game.log.resets = {}
    /\ game.log.destroyed = 0

\* C2: a level whose state is Completed keeps that state in every frame in
\* which Level::Reset() does not run on it; the end of a round with no attempt
\* left and the automatic advance leave it Completed.
C2_CompletedStays ==
    [][\A l \in Levels :
          (game.state[l] = COMPLETED /\ l \notin game'.log.resets)
              => game'.state[l] = COMPLETED]_vars

\* C2's case: the world has advanced past a level that is still Completed
C2_Witness ==
    /\ last.advance
    /\ \E l \in Levels : l # game.currentLevel /\ game.state[l] = COMPLETED

\* C3: at the end of every tick a level is Completed exactly if its score is at
\* least its target score, and Level::Update() has run in a tick only if a
\* ball has destroyed an obstacle in that tick.
C3_CompletedIffTarget ==
    /\ \A l \in Levels :
          game.state[l] = COMPLETED <=> GetCurrentScore(game, l) >= TargetScore[l]
    /\ game.log.checked => game.log.destroyed > 0

\* C3's case: the tick whose collisions took the current level to its target
C3_Witness ==
    /\ game.log.checked
    /\ game.state[game.currentLevel] = COMPLETED
    /\ GetCurrentScore(game, game.currentLevel) = TargetScore[game.currentLevel]

\* C4: a tick sets the current level to Failed exactly if, after the balls were
\* advanced, the round is launched, the main ball and all split balls are
\* inactive, attempts <= 0 and the level is not Completed; no level becomes
\* Failed in a frame that has not done so; without a reset in the same tick
\* the level is Failed at the end of it.
C4_FailedExactly ==
    [][/\ game'.log.failedSet <=> last'.roundLost
       /\ \A l \in Levels :
             (game.state[l] # FAILED /\ game'.state[l] = FAILED) => game'.log.failedSet
       /\ (game'.log.failedSet /\ game'.log.resets = {})
             => game'.state[game'.currentLevel] = FAILED]_vars

\* C4's case: a round has ended with no attempt left and the level not completed
C4_Witness ==
    /\ last.roundLost
    /\ game.log.failedSet
    /\ game.state[game.currentLevel] = FAILED

\* C5: Level::Reset() on any level, in any state of it, makes all its obstacles
\* visible and its state Playing (score 0) and changes nothing else: not the
\* attempts, the balls, the scores and flags of the world, or another level.
C5_LevelResetFrame ==
    \A l \in Levels :
        LET h == LevelReset(game, l)
        IN  /\ h.visible[l] = 1..NumObstacles(l)
            /\ h.state[l] = PLAYING
            /\ GetCurrentScore(h, l) = 0
            /\ [h EXCEPT !.visible[l] = game.visible[l],
                         !.state[l] = game.state[l],
                         !.log = game.log] = game

\* C5's case: levels in each of the three states, with obstacles destroyed and
\* attempts used, on which Level::Reset() has something to restore
C5_Witness ==
    /\ \E l \in Levels : game.state[l] = FAILED /\ Hidden(l) # {}
    /\ \E l \in Levels : game.state[l] = COMPLETED
    /\ \E l \in Levels : game.state[l] = PLAYING
    /\ game.attempts < START_ATTEMPTS

\* C6: in every reachable state every level's GetCurrentScore() is a multiple
\* of 10, at least 0 and at most 10 times the number of its obstacles.
C6_ScoreRange ==
    \A l \in Levels :
        LET score == GetCurrentScore(game, l)
        IN  /\ score % 10 = 0
            /\ score >= 0
            /\ score <= 10 * NumObstacles(l)

\* C6's case: two levels with obstacles destroyed
C6_Witness ==
    /\ GetCurrentScore(game, 1) >= TargetScore[1]
    /\ GetCurrentScore(game, 2) > 0

SpeedSq(v) == v.x * v.x + v.y * v.y
Cross(v, w) == v.x * w.y - v.y * w.x
Dot(v, w) == v.x * w.x + v.y * w.y

\* the precondition of the split: affordable, launched, not split yet
SplitReady(g) ==
    g.canUsePowerup /\ g.launched /\ ~g.ball.isSplit /\ Len(g.splitBalls) = 0

\* C7: ActivateSplitPowerup(), called with the round launched, the main ball
\* not split, no split ball and the power-up affordable, adds exactly two split
\* balls at the parent's position, as fast as the parent (to one rounding
\* step), turned by -30 and +30 degrees (sine of the turn -1/2 and +1/2, cosine
\* positive), of radius 0.7 times the parent's; the parent becomes split with
\* its radius times 0.7, the power-up becomes active, the total score drops by
\* the cost of 50, and nothing else changes.
C7_SplitEffect ==
    SplitReady(game) =>
        LET h == ActivateSplitPowerup(game)
            parent == game.ball
            slack == 2 * (Abs(parent.vel.x) + Abs(parent.vel.y))
            Child(k, sign) ==
                LET c == h.splitBalls[k]
                IN  /\ c.pos = parent.pos
                    /\ c.radius = Shrink(parent.radius)
                    /\ c.radius * 10 <= parent.radius * 7
                    /\ c.radius * 10 > parent.radius * 7 - 10
                    /\ c.isSplit
                    /\ c.isActive = parent.isActive
                    /\ Abs(Sqrt(SpeedSq(c.vel)) - Sqrt(SpeedSq(parent.vel))) <= 2
                    /\ Abs(2 * Cross(parent.vel, c.vel) - sign * SpeedSq(parent.vel)) <= slack
                    /\ Dot(parent.vel, c.vel) > 0
        IN  /\ Len(h.splitBalls) = 2
            /\ Child(1, -1)
            /\ Child(2, 1)
            /\ h.ball = [parent EXCEPT !.isSplit = TRUE, !.radius = Shrink(parent.radius)]
            /\ h.powerupActive
            /\ h.totalScore = game.totalScore - POWERUP_COST
            /\ [h EXCEPT !.splitBalls = game.splitBalls,
                         !.ball = game.ball,
                         !.powerupActive = game.powerupActive,
                         !.totalScore = game.totalScore] = game

\* C7's case: the tick in which the player has split the ball in flight
C7_Witness ==
    /\ game.launched
    /\ Len(game.splitBalls) = 2
    /\ game.ball.isSplit
    /\ game.ball.radius = Shrink(BALL_RADIUS * FP)
    /\ game.powerupActive
    /\ game.totalScore = SumOfScores(game) - POWERUP_COST

\* C8: ActivateSplitPowerup() with a precondition unmet (not affordable, not
\* launched, main ball already split, split balls present) changes nothing; a
\* second call after a split is such a call; so a launch has no or two split
\* balls, never more.
C8_SplitNoOp ==
    /\ ~SplitReady(game) => ActivateSplitPowerup(game) = game
    /\ LET h == ActivateSplitPowerup(game) IN ActivateSplitPowerup(h) = h
    /\ Len(game.splitBalls) \in {0, 2}
    /\ Len(game.splitBalls) = 2 => game.launched /\ game.ball.isSplit

\* C8's case: a flight after the split, with the power-up still affordable and
\* the button pressed again
C8_Witness ==
    /\ game.launched
    /\ game.canUsePowerup
    /\ game.ball.isActive
    /\ Len(game.splitBalls) = 2
    /\ leftDown
    /\ ~game.log.checked
    /\ game.totalScore = SumOfScores(game)

\* C9: the world advances from a Completed level (index below 4) only after
\* more than 2 seconds of frame time have accumulated since that completion,
\* and never beyond level 4.
C9_AdvanceAfterDelay ==
    /\ last.advance => sinceCompleted > COMPLETION_DELAY_MS
    /\ game.currentLevelIndex \in Levels

WithinLimit(v) ==
    SpeedSq(v) <= (VELOCITY_MULTIPLIER * FP) * (VELOCITY_MULTIPLIER * FP)

GridWithinLimit == \A p \in DragGrid : WithinLimit(LaunchFrom(p.x, p.y).vel)

\* C10: during a drag the velocity set by the launch controller has magnitude
\* at most VELOCITY_MULTIPLIER (40), for the pointer positions of the frames
\* and for every ball position of DragGrid, those farther than
\* LAUNCH_MAX_DISTANCE from the anchor included.
C10_LaunchSpeedBound ==
    /\ game.selectedBall => WithinLimit(game.ball.vel)
    /\ GridWithinLimit

\* C10's case: a drag beyond the launch circle, which sets the full speed
C10_Witness ==
    /\ game.selectedBall
    /\ game.ball.pos # Anchor
    /\ SpeedSq(game.ball.vel) = (VELOCITY_MULTIPLIER * FP) * (VELOCITY_MULTIPLIER * FP)

\* squared distance of a ball position from the anchor
AnchorDistSq(p) ==
    (p.x - Anchor.x) * (p.x - Anchor.x) + (p.y - Anchor.y) * (p.y - Anchor.y)

\* C11: while the main projectile is being dragged, at the end of every Update
\* tick its position is at distance at most LAUNCH_MAX_DISTANCE (100) from the
\* anchor, whatever the pointer position.
C11_DragWithinCircle ==
    game.selectedBall =>
        AnchorDistSq(game.ball.pos) <= (LAUNCH_MAX_DISTANCE * FP) * (LAUNCH_MAX_DISTANCE * FP)

\* the vertical launch velocity opposes the pull: upward for a ball at or
\* below the anchor's height, downward for a ball above it
OpposesPull(b) ==
    /\ b.pos.y >= Anchor.y => b.vel.y <= 0
    /\ b.pos.y <= Anchor.y => b.vel.y >= 0

GridOpposesPull == \A p \in DragGrid : OpposesPull(LaunchFrom(p.x, p.y))

\* C12 as stated: for every drag point, below or above the anchor, the launch
\* velocity is never directed downward (vel.y <= 0).
C12_NeverDownward == game.selectedBall => game.ball.vel.y <= 0

\* C12, amended: the vertical component of the launch velocity opposes the
\* pull: vel.y <= 0 when the projectile is dragged to or below the anchor's
\* height, vel.y >= 0 when it is dragged above the anchor; for the pointer
\* positions of the frames and for every ball position of DragGrid.
C12_VerticalOpposesPull ==
    /\ game.selectedBall => OpposesPull(game.ball)
    /\ GridOpposesPull

\* C12's case: the ball is dragged above the anchor and would be launched
\* downward
C12_Witness ==
    /\ game.selectedBall
    /\ game.ball.pos.y < Anchor.y
    /\ game.ball.vel.y > 0

\* the main projectile is grabbed and away from the anchor
PulledBack(g) == g.selectedBall /\ g.ball.pos # Anchor

\* an Update tick in which the left button is released
ReleaseTick ==
    /\ appState = "PLAYING"
    /\ game.state[game.currentLevel] # COMPLETED
    /\ leftDown /\ ~leftDown'

\* C13: on pointer release a launch happens (launched becomes true, attempts
\* decreases by exactly 1) if and only if the main projectile was grabbed and
\* its position differs from the anchor; otherwise launched and attempts are
\* unchanged; in both cases the grab is cleared.  Stated of lines 670-677 on
\* the world the tick starts from, and of the whole tick for attempts and grab.
C13_ReleaseLaunches ==
    [][ReleaseTick =>
          /\ LET h == Release(game, ReleaseInput)
             IN  /\ ~h.selectedBall
                 /\ IF PulledBack(game)
                    THEN h.launched /\ ~game.launched /\ h.attempts = game.attempts - 1
                    ELSE h.launched = game.launched /\ h.attempts = game.attempts
          /\ ~game'.selectedBall
          /\ game'.attempts = IF PulledBack(game) THEN game.attempts - 1 ELSE game.attempts]_vars

\* C13's case: the tick of a release that launched the first ball of a level
C13_Witness ==
    /\ game.launched
    /\ ~leftDown
    /\ ~game.selectedBall
    /\ game.attempts = START_ATTEMPTS - 1
    /\ game.ball.pos # Anchor

\* the radius and split flag of a projectile: full size, or split
BallKinds == {<<BALL_RADIUS * FP, FALSE>>, <<Shrink(BALL_RADIUS * FP), TRUE>>}

\* the projectiles of the world
GameBalls(g) == {g.ball} \cup {g.splitBalls[k] : k \in 1..Len(g.splitBalls)}

ShapeOf(b) == [pos |-> b.pos, radius |-> b.radius, isSplit |-> b.isSplit]

\* the center of an obstacle rectangle, in 1/FP pixel
Center(rect) ==
    Vec(rect.x * FP + (rect.width * FP) \div 2, rect.y * FP + (rect.height * FP) \div 2)

\* the points the 20 probe slots of a projectile give
ProbePoints(b) ==
    {Vec(GetProbePosition(b, TRUE, i), GetProbePosition(b, FALSE, i)) :
        i \in 0..(PROBE_QUANTITY * 2 - 1)}

\* an active projectile of either kind centered on any obstacle collides with it
CenteredCollides ==
    \A l \in Levels : \A i \in 1..NumObstacles(l) : \A k \in BallKinds :
        CollidesWith([pos |-> Center(ObstacleRects[l][i]), vel |-> Vec(0, 0),
                      radius |-> k[1], isSplit |-> k[2], isActive |-> TRUE],
                     [rect |-> ObstacleRects[l][i], visible |-> TRUE])

\* a projectile with no probe point inside an obstacle does not collide with it
ClearOfProbes ==
    \A l \in Levels : \A i \in 1..NumObstacles(l) : \A shape \in BallShapes :
        LET b == [pos |-> shape.pos, vel |-> Vec(0, 0), radius |-> shape.radius,
                  isSplit |-> shape.isSplit, isActive |-> TRUE]
        IN  (\A p \in ProbePoints(b) : ~CheckCollisionPointRec(p, ObstacleRects[l][i]))
                => ~CollidesWith(b, [rect |-> ObstacleRects[l][i], visible |-> TRUE])

\* C14: an active projectile (split or not) whose center coincides with the
\* center of a visible obstacle collides with it, and a projectile none of
\* whose probe points lies inside an obstacle's rectangle does not; for the
\* obstacles of the four levels and every size and place of a projectile
\* that the world reaches.
C14_CenterHitsProbesDecide ==
    /\ \A b \in GameBalls(game) :
          <<b.radius, b.isSplit>> \in BallKinds /\ ShapeOf(b) \in BallShapes
    /\ CenteredCollides
    /\ ClearOfProbes

\* C14's case: a split projectile in flight with a probe inside some obstacles
\* of the level and none inside the others
C14_Witness ==
    /\ game.launched
    /\ game.ball.isSplit /\ game.ball.isActive
    /\ Touched(game.ball, game.currentLevel) # {}
    /\ Touched(game.ball, game.currentLevel) # 1..NumObstacles(game.currentLevel)

\* C15: a launched projectile that is advanced once per tick eventually
\* becomes inactive, so that the launched round ends (the balls are reset and
\* launched is false again); a level that is completed first stops the ticks
\* of the projectile and is left aside.
C15_RoundEnds ==
    <>(~game.launched \/ game.state[game.currentLevel] = COMPLETED)

\* the obstacle i of level l as the world holds it
ObstacleOf(g, l, i) == [rect |-> ObstacleRects[l][i], visible |-> i \in g.visible[l]]

\* the radius Ball::GetProbePosition displaces the probes of b by
ProbeRadius(b) == IF b.isSplit THEN Shrink(b.radius) ELSE b.radius

\* the center of b displaced by ring in the direction of deg degrees
Displaced(b, ring, deg) ==
    Vec(b.pos.x + TruncDiv(ring * Cos4(deg), TRIG),
        b.pos.y + TruncDiv(ring * Sin4(deg), TRIG))

\* the center of b displaced in the 8 directions 0, 45, ..., 315 degrees by
\* the probe radius and by half the probe radius
SamplePoints(b) ==
    {Displaced(b, ring, 45 * k) :
        k \in 0..7, ring \in {ProbeRadius(b), TruncDiv(ProbeRadius(b), 2)}}

\* the point probe slot i of b gives
SlotPoint(b, i) == Vec(GetProbePosition(b, TRUE, i), GetProbePosition(b, FALSE, i))

\* the probe slots past the eight given directions, in both rings
SpareSlots ==
    {i \in 0..(PROBE_QUANTITY * 2 - 1) : (i % PROBE_QUANTITY) >= 8}

\* a visible obstacle and an active projectile, of any size and place the
\* world reaches, collide exactly when a sample point is inside the rectangle
SamplePointsDecide ==
    \A l \in Levels : \A i \in 1..NumObstacles(l) : \A shape \in BallShapes :
        LET b == [pos |-> shape.pos, vel |-> Vec(0, 0), radius |-> shape.radius,
                  isSplit |-> shape.isSplit, isActive |-> TRUE]
        IN  CollidesWith(b, [rect |-> ObstacleRects[l][i], visible |-> TRUE])
                <=> \E p \in SamplePoints(b) :
                        CheckCollisionPointRec(p, ObstacleRects[l][i])

\* C16: for every projectile of the world and every obstacle of the current
\* level, CollidesWith is true exactly when the obstacle is visible, the
\* projectile is active and one of the 16 sample points (center displaced in
\* the 8 directions by the probe radius and by half of it) is inside the
\* obstacle's rectangle; the 20 slots give exactly these 16 points, and the
\* slots 8, 9, 18, 19 give points that other slots give already.  An
\* invisible obstacle or an inactive projectile is tested in the state, a
\* visible obstacle and an active projectile for every size and place the
\* world reaches.
C16_SixteenSamplePoints ==
    /\ SpareSlots = {8, 9, 18, 19}
    /\ SamplePointsDecide
    /\ \A b \in GameBalls(game) :
          /\ ShapeOf(b) \in BallShapes
          /\ Cardinality(SamplePoints(b)) = 16
          /\ ProbePoints(b) = SamplePoints(b)
          /\ \A i \in SpareSlots :
                \E j \in (0..(PROBE_QUANTITY * 2 - 1)) \ SpareSlots :
                    SlotPoint(b, i) = SlotPoint(b, j)
          /\ \A i \in 1..NumObstacles(game.currentLevel) :
                (~b.isActive \/ i \notin game.visible[game.currentLevel])
                    => ~CollidesWith(b, ObstacleOf(game, game.currentLevel, i))

\* C16's case: an active projectile in flight with a sample point inside a
\* visible obstacle (a collision) and one inside an obstacle that is no
\* longer visible (no collision)
C16_Witness ==
    /\ game.launched /\ game.ball.isActive
    /\ \E i \in game.visible[game.currentLevel] :
          CollidesWith(game.ball, ObstacleOf(game, game.currentLevel, i))
    /\ \E i \in (1..NumObstacles(game.currentLevel)) \ game.visible[game.currentLevel] :
          \E p \in SamplePoints(game.ball) :
              CheckCollisionPointRec(p, ObstacleRects[game.currentLevel][i])

\* C17: every split projectile of the world (the parent and the two split
\* projectiles after a split) has its probe points on the rings at 0.7 times
\* the radius the parent had before the split (BALL_RADIUS) and at half of
\* that: the collision radius is scaled by 0.7 exactly once.
C17_ScaledOnce ==
    \A b \in GameBalls(game) :
        b.isSplit =>
            ProbePoints(b) =
                {Displaced(b, ring, 45 * k) :
                    k \in 0..7,
                    ring \in {Shrink(BALL_RADIUS * FP),
                              TruncDiv(Shrink(BALL_RADIUS * FP), 2)}}

\* the balls of g are as GameWorld::ResetBalls leaves them
RoundIsReset(g) ==
    /\ g.ball.pos = Anchor
    /\ g.ball.isActive
    /\ ~g.ball.isSplit
    /\ g.ball.radius = BALL_RADIUS * FP
    /\ g.splitBalls = <<>>
    /\ ~g.launched

\* the keys of a tick that put obstacles back (lines 715-733)
ResettingKeys == {"RESET", "ONE", "TWO", "THREE", "FOUR"}

\* C18: in every Update tick the world can take in which all projectiles are
\* inactive after they were advanced, the world at the end of the tick has
\* its balls reset (main projectile at the anchor, active, not split, radius
\* 40, no split projectiles, launched false) and the obstacle visibility the
\* advance left (unless a reset or level key of the same tick puts obstacles
\* back); and at the end of every tick launched implies an active projectile.
C18_RoundResetInTick ==
    /\ game.launched => ~AllBallsStopped(game)
    /\ (appState = "PLAYING" /\ game.state[game.currentLevel] # COMPLETED) =>
          \A in \in FrameInputs(game, leftDown) :
              \A g1 \in {HandlePointer(Cleared(game), in)} :
                  \A moved \in MovedChoices(g1) :
                      \A mid \in {AdvanceTick(g1, moved)} :
                          (g1.launched /\ AllBallsStopped(mid)) =>
                              \A end \in {EndTick(g1, mid, in.key)} :
                                  /\ RoundIsReset(end)
                                  /\ in.key \notin ResettingKeys =>
                                        end.visible = mid.visible

\* C18's case: the end of a tick that reset a round with attempts left and
\* destroyed obstacles kept out of sight
C18_Witness ==
    /\ RoundIsReset(game)
    /\ game.attempts \in 1..(START_ATTEMPTS - 1)
    /\ game.visible[game.currentLevel] # 1..NumObstacles(game.currentLevel)
    /\ game.state[game.currentLevel] = PLAYING

\* h is the world SetLevel(n) makes of g, as far as the claim describes it
SetLevelEffect(g, h, n) ==
    /\ h.currentLevel = n /\ h.currentLevelIndex = n
    /\ h.visible[n] = 1..NumObstacles(n)
    /\ h.state[n] = PLAYING
    /\ h.attempts = START_ATTEMPTS
    /\ h.ball.pos = Anchor /\ h.ball.isActive /\ ~h.ball.isSplit
    /\ ~h.launched
    /\ h.splitBalls = <<>>
    /\ \A l \in Levels \ {n} :
          /\ h.visible[l] = g.visible[l]
          /\ h.state[l] = g.state[l]
          /\ GetCurrentScore(h, l) = GetCurrentScore(g, l)

\* C19: SetLevel(n), n in 1..4, applied to any world the program reaches,
\* makes level n current with index n, all its obstacles visible and its
\* state Playing, attempts 3, the main projectile at the anchor (active,
\* unsplit, not launched) and no split projectiles, and leaves the obstacle
\* visibility, state and score of every other level as they were; a click on
\* a level button has this effect on the world.
C19_SetLevelFrame ==
    /\ [](\A n \in 1..LAST_LEVEL : SetLevelEffect(game, SetLevel(game, n), n))
    /\ [][appState = "LEVEL_SELECT" =>
              SetLevelEffect(game, game', game'.currentLevel)]_vars

\* C19's case: level 2 was just set while level 1 keeps destroyed obstacles
\* and attempts had been used
C19_Witness ==
    /\ game.currentLevel = 2
    /\ 2 \in game.log.resets
    /\ game.visible[1] # 1..NumObstacles(1)
    /\ SetLevelEffect(game, game, 2)

C22_CostRetained ==
    game.ball.isSplit => game.totalScore <= SumOfScores(game) - POWERUP_COST

\* the input of a tick in which key k is hit and the pointer does nothing new
KeyInput(k, wasDown) ==
    [mouse |-> PullPoint, pressed |-> FALSE, down |-> wasDown, released |-> FALSE, key |-> k]

\* the worlds one GameWorld::Update tick with key k hit can make of g: the
\* early return of lines 608-621 for a completed level, which reads no key,
\* and lines 623-733 otherwise
TickWithKey(g, ct, wasDown, k) ==
    IF g.state[g.currentLevel] = COMPLETED
    THEN {UpdateCompleted(Cleared(g), ct, dt).g : dt \in FrameTimes}
    ELSE UNION {{EndTick(g1, AdvanceTick(g1, moved), k) : moved \in MovedChoices(g1)} :
                    g1 \in {HandlePointer(Cleared(g), KeyInput(k, wasDown))}}

\* the reset or level change has taken effect in g
KeyTookEffect(g) ==
    /\ g.state[g.currentLevel] = PLAYING
    /\ g.visible[g.currentLevel] = 1..NumObstacles(g.currentLevel)
    /\ g.attempts = START_ATTEMPTS
    /\ RoundIsReset(g)

\* a tick with a reset or level key takes effect when the level is not Completed
KeysTakeEffectUnlessCompleted ==
    (appState = "PLAYING" /\ game.state[game.currentLevel] # COMPLETED) =>
        \A k \in ResettingKeys :
            \A end \in TickWithKey(game, completionTime, leftDown, k) : KeyTookEffect(end)

\* C23: in every state of the current level (Playing, Failed, Completed), an
\* Update tick in which the reset input or a level key is hit ends with the
\* current level Playing, all its obstacles visible, attempts 3 and the
\* projectiles reset.
C23_KeysTakeEffect ==
    appState = "PLAYING" =>
        \A k \in ResettingKeys :
            \A end \in TickWithKey(game, completionTime, leftDown, k) : KeyTookEffect(end)

====
